---- MODULE Spec2Model ----
(***************************************************************************)
(* A model of src/src/MarkdownTranslator.py (class MdTranslater).          *)
(*                                                                         *)
(* Three specifications share this module:                                 *)
(*   SpecNodes  the loop of __generate_nodes, one line per step            *)
(*   Spec       one (document, target language) task: __translate_to with  *)
(*              __preprocessing and __translate_lines                      *)
(*   SpecMain   main and __parallel_translate with the thread pool         *)
(*                                                                         *)
(* A line is a sequence of tokens, a text is a sequence of tokens in which *)
(* the token NL is a line break.  Nodes.py, Utils.py, Translator.py and    *)
(* config.py are imported by the source file and are not part of it: what  *)
(* the model needs of them follows the written specification.              *)
(***************************************************************************)
EXTENDS Naturals, Sequences, FiniteSets, TLC

(* ------------------------------ bounds -------------------------------- *)
\* lines the classifier is fed in SpecNodes
MaxScan == 3
\* lines of the source document of the task in Spec
MaxDocLines == 3
\* length of config.target_langs in SpecMain
MaxLangs == 2
\* worker threads of the pool in SpecMain
MaxWorkers == 2

(* ------------------------------ tokens -------------------------------- *)
NL == "\n"
Dash == "---"
\* three backquotes
Fence == "<fence>"
Marker == "__do_not_translate__"
KeyTitle == "title:"
KeyDate == "date:"
KeyTags == "tags:"
\* a key prefix that is the beginning of the key tags:
KeyTag == "tag"
Hash1 == "# "
Hash2 == "## "
Img == "<img "
Audio == "<audio"
Link == "[l](u)"
Word == "w"
\* a full-width comma and the half-width comma it folds to
FullComma == "U+FF0C"
HalfComma == ","
\* an ideograph
Han == "U+4E2D"
Space == " "

Whitespace == {NL, Space}

(* ------------------------------ config -------------------------------- *)
Langs == {"en", "ja", "zh-TW"}
front_matter_key_value_keys == {KeyTitle}
front_matter_transparent_keys == {KeyDate}
front_matter_key_value_array_keys == {KeyTags}
compact_langs == {"ja", "zh-TW"}

\* the three tables as config.py gives them
DefaultTables ==
    [key_value_keys |-> front_matter_key_value_keys,
     transparent_keys |-> front_matter_transparent_keys,
     key_value_array_keys |-> front_matter_key_value_array_keys]

\* other disjoint tables a configuration can give: the keys in other tables,
\* and a scalar prefix that is the beginning of an array key
TableConfigs ==
    { DefaultTables,
      [key_value_keys |-> {KeyTags}, transparent_keys |-> {KeyTitle},
       key_value_array_keys |-> {KeyDate}],
      [key_value_keys |-> {KeyTitle, KeyTag}, transparent_keys |-> {KeyDate},
       key_value_array_keys |-> {KeyTags}] }
warnings_mapping(lang) ==
    CASE lang = "en" -> "warning-en"
      [] lang = "ja" -> "warning-ja"
      [] OTHER -> "warning-zh-TW"

(* ------------------------------ strings ------------------------------- *)
RECURSIVE LStrip(_)
LStrip(s) == IF s # <<>> /\ Head(s) \in Whitespace THEN LStrip(Tail(s)) ELSE s

RECURSIVE RStrip(_)
RStrip(s) ==
    IF s # <<>> /\ s[Len(s)] \in Whitespace
    THEN RStrip(SubSeq(s, 1, Len(s) - 1)) ELSE s

\* str.strip()
Strip(s) == RStrip(LStrip(s))

\* the pairs <<p, t>> of tokens in which the text of p is a proper prefix of
\* the text of t
ProperPrefixes == {<<KeyTag, KeyTags>>}

\* str.startswith(prefix) for a one-token prefix, or a tuple of them
StartsWith(s, prefixes) ==
    s # <<>> /\ \E p \in prefixes : p = s[1] \/ <<p, s[1]>> \in ProperPrefixes

Contains(s, tok) == \E i \in 1..Len(s) : s[i] = tok

\* str.splitlines(): the lines of a text, broken at every NL; a text that
\* does not end in NL has a last line without one
RECURSIVE SplitFrom(_, _, _)
SplitFrom(text, i, cur) ==
    IF i > Len(text) THEN (IF cur = <<>> THEN <<>> ELSE <<cur>>)
    ELSE IF text[i] = NL THEN <<cur>> \o SplitFrom(text, i + 1, <<>>)
    ELSE SplitFrom(text, i + 1, Append(cur, text[i]))

splitlines(text) == SplitFrom(text, 1, <<>>)

\* "".join(parts)
RECURSIVE Concat(_)
Concat(parts) == IF parts = <<>> THEN <<>> ELSE Head(parts) \o Concat(Tail(parts))

\* "\n".join(lines)
RECURSIVE JoinNL(_)
JoinNL(lines) ==
    IF lines = <<>> THEN <<>>
    ELSE IF Len(lines) = 1 THEN lines[1]
    ELSE lines[1] \o <<NL>> \o JoinNL(Tail(lines))

\* str.rstrip('\n')
RECURSIVE RStripNL(_)
RStripNL(s) ==
    IF s # <<>> /\ s[Len(s)] = NL THEN RStripNL(SubSeq(s, 1, Len(s) - 1)) ELSE s

RECURSIVE SumSeq(_)
SumSeq(s) == IF s = <<>> THEN 0 ELSE Head(s) + SumSeq(Tail(s))

SeqsUpTo(S, n) == UNION {[1..k -> S] : k \in 0..n}

(* ------------------------------- Nodes -------------------------------- *)
\* The segment variants of Nodes.py.  line is the line the node was made
\* from, value the deferred field the splice fills, trans_lines the number
\* of response lines the node consumes.
WithoutBreaks(line) == SelectSeq(line, LAMBDA t : t # NL)

TransparentNode(line) ==
    [kind |-> "Transparent", line |-> line, value |-> line, trans_lines |-> 0]
SolidNode(line) ==
    [kind |-> "Solid", line |-> line, value |-> line, trans_lines |-> 1]
TitleNode(line) ==
    [kind |-> "Title", line |-> line, value |-> line, trans_lines |-> 1]
ImageOrLinkNode(line) ==
    [kind |-> "ImageOrLink", line |-> line, value |-> line, trans_lines |-> 1]
KeyValueNode(line) ==
    [kind |-> "KeyValue", line |-> line, value |-> line, trans_lines |-> 1]
\* one translated line per array element: the tokens after the key
KeyValueArrayNode(line) ==
    [kind |-> "KeyValueArray", line |-> line, value |-> line,
     trans_lines |-> Len(line) - 1]

\* the translatable lines a node contributes to the batch
TransText(node) ==
    CASE node.kind = "Transparent" -> <<>>
      [] node.kind = "KeyValueArray" ->
            [i \in 1..(Len(node.line) - 1) |-> <<node.line[i + 1]>>]
      [] node.kind \in {"KeyValue", "Title"} -> <<Tail(WithoutBreaks(node.line))>>
      [] OTHER -> <<WithoutBreaks(node.line)>>

\* Node.get_trans_buff(): the translatable lines, each ended by a line break
get_trans_buff(node) == Concat([i \in 1..Len(TransText(node)) |-> TransText(node)[i] \o <<NL>>])

\* Node.compose(): the output text of the node, ended by a line break
compose(node) ==
    CASE node.kind = "Transparent" -> node.line \o <<NL>>
      [] node.kind = "KeyValueArray" ->
            <<node.line[1]>> \o Concat(splitlines(node.value)) \o <<NL>>
      [] node.kind \in {"KeyValue", "Title"} -> <<node.line[1]>> \o node.value \o <<NL>>
      [] OTHER -> node.value \o <<NL>>

\* Patterns.ImageOrLink.search(line)
ImageOrLink(line) == Contains(line, Link)

(* ------------------------------- state -------------------------------- *)
VARIABLES
    config_insert_warnings, \* config.insert_warnings
    config_front_matter,    \* the three front_matter_*_keys tables of config
    target_lang,            \* the target language of the task
    nodes,                  \* the nodes of __generate_nodes / __translate_lines
    \* the locals of the loop of __generate_nodes (SpecNodes)
    scanned,                \* the lines the loop has consumed
    is_front_matter, is_code_block, do_not_trans, insert_warnings,
    \* one task, __translate_to (Spec)
    pc,                     \* the statement the task is at
    src_text,               \* the text of self.__src_file
    src_lines,
    src_md_text,
    translated_lines,
    backend_calls,          \* the batches handed to the backend at line 97
    node_i,                 \* the nodes the splice loop has passed
    start_pos,
    final_md_text,
    line_i,                 \* the lines the loop of line 126 has passed
    final_markdown,
    last_char,
    expand_calls,           \* the calls of expand_part made at line 132
    target_file,            \* the text of the output file, or NoFile
    error,                  \* the exception the except clause logged, or NoError
    \* main, __parallel_translate and the pool (SpecMain)
    m_pc,                   \* the statement main is at
    todo,                   \* the source files main has still to visit
    cur,                    \* src_filename of the loop of line 185
    config_target_langs,    \* config.target_langs
    lang_i,                 \* the entries of it the loop of line 191 has passed
    target_langs,
    skipped,                \* the languages line 194 logged as skipped
    src_file,               \* self.__src_file
    futures,                \* the tasks submitted at line 154
    files                   \* the output files: (document, language) -> text

(* --------------------------- __generate_nodes ------------------------- *)
\* the warning banner of lines 44 and 83
WarningValue(lang) == <<NL, "> ", warnings_mapping(lang), NL>>

IsWarning(node) == node.kind = "Transparent" /\ \E l \in Langs : node.line = WarningValue(l)

\* the locals of the loop before its first iteration
LoopInit(warn) ==
    [is_front_matter |-> FALSE, is_code_block |-> FALSE, do_not_trans |-> FALSE,
     insert_warnings |-> warn, nodes |-> <<>>]

Emit(st, node) == [st EXCEPT !.nodes = Append(@, node)]

InsertWarningKeepsFlag(st, lang) ==
    Emit(st, TransparentNode(WarningValue(lang)))

\* lines 44-45 and 83-84: append the banner and clear the pending flag
InsertWarning(st, lang) ==
    [Emit(st, TransparentNode(WarningValue(lang))) EXCEPT !.insert_warnings = FALSE]

DashWarnsOnOpen(st) == st.is_front_matter /\ st.insert_warnings

\* line 43, evaluated after the toggle of line 40
DashWarns(st) == ~st.is_front_matter /\ st.insert_warnings

\* lines 39-46
DashLine(st, line, lang) ==
    LET t == Emit([st EXCEPT !.is_front_matter = ~@], TransparentNode(line))
    IN  IF DashWarns(t) THEN InsertWarning(t, lang) ELSE t

FenceLineNoToggle(st, line) == Emit(st, TransparentNode(line))

\* lines 48-51
FenceLine(st, line) == Emit([st EXCEPT !.is_code_block = ~@], TransparentNode(line))

MarkerLineEmits(st) == Emit([st EXCEPT !.do_not_trans = ~@], TransparentNode(<<Marker>>))

\* lines 53-55
MarkerLine(st) == [st EXCEPT !.do_not_trans = ~@]

\* the array table is asked first
FrontMatterLineArrayFirst(st, line) ==
    IF StartsWith(line, config_front_matter.key_value_array_keys)
    THEN Emit(st, KeyValueArrayNode(line))
    ELSE IF StartsWith(line, config_front_matter.key_value_keys)
    THEN Emit(st, KeyValueNode(line))
    ELSE IF StartsWith(line, config_front_matter.transparent_keys)
    THEN Emit(st, TransparentNode(line))
    ELSE Emit(st, SolidNode(line))

\* lines 58-66
FrontMatterLine(st, line) ==
    IF StartsWith(line, config_front_matter.key_value_keys)
    THEN Emit(st, KeyValueNode(line))
    ELSE IF StartsWith(line, config_front_matter.transparent_keys)
    THEN Emit(st, TransparentNode(line))
    ELSE IF StartsWith(line, config_front_matter.key_value_array_keys)
    THEN Emit(st, KeyValueArrayNode(line))
    ELSE Emit(st, SolidNode(line))

\* lines 72-86
NormalLine(st, line, lang) ==
    IF Len(Strip(line)) = 0 \/ StartsWith(line, {Audio, Img}) THEN Emit(st, TransparentNode(line))
    ELSE IF ImageOrLink(line) THEN Emit(st, ImageOrLinkNode(line))
    ELSE IF StartsWith(Strip(line), {Hash1, Hash2}) THEN
        LET t == Emit(st, TitleNode(line))
        IN  IF StartsWith(Strip(line), {Hash1}) /\ t.insert_warnings
            THEN InsertWarning(t, lang) ELSE t
    ELSE Emit(st, SolidNode(line))

IsDashLine(line) == Strip(line) = <<Dash>>
IsFenceLine(line) == ~IsDashLine(line) /\ StartsWith(line, {Fence})
IsMarkerLine(line) == ~IsDashLine(line) /\ ~IsFenceLine(line) /\ StartsWith(line, {Marker})
IsPlainLine(line) == ~IsDashLine(line) /\ ~StartsWith(line, {Fence, Marker})

IsVerbatimCodeOnly(st) == st.is_code_block

\* line 69
IsVerbatim(st) == st.is_code_block \/ st.do_not_trans

\* one iteration of the loop of lines 38-86
LoopBody(st, line, lang) ==
    IF IsDashLine(line) THEN DashLine(st, line, lang)
    ELSE IF StartsWith(line, {Fence}) THEN FenceLine(st, line)
    ELSE IF StartsWith(line, {Marker}) THEN MarkerLine(st)
    ELSE IF st.is_front_matter THEN FrontMatterLine(st, line)
    ELSE IF IsVerbatim(st) THEN Emit(st, TransparentNode(line))
    ELSE NormalLine(st, line, lang)

RECURSIVE LoopFrom(_, _, _)
LoopFrom(st, lines, lang) ==
    IF lines = <<>> THEN st ELSE LoopFrom(LoopBody(st, Head(lines), lang), Tail(lines), lang)

\* __generate_nodes(src_lines, target_lang) with config.insert_warnings = warn
generate_nodes(lines, lang, warn) == LoopFrom(LoopInit(warn), lines, lang).nodes

(* ----------------------- SpecNodes: the classifier -------------------- *)
sharedVars == <<config_insert_warnings, config_front_matter, target_lang, nodes>>
scanVars == <<scanned, is_front_matter, is_code_block, do_not_trans, insert_warnings>>
taskVars ==
    <<pc, src_text, src_lines, src_md_text, translated_lines, backend_calls, node_i,
      start_pos, final_md_text, line_i, final_markdown, last_char, expand_calls,
      target_file, error>>
mainVars ==
    <<m_pc, todo, cur, config_target_langs, lang_i, target_langs, skipped, src_file,
      futures, files>>
nodeVars == <<sharedVars, scanVars, taskVars, mainVars>>

NoFile == <<"<no file>">>
NoError == "none"

\* the task variables while no task runs
TaskIdle ==
    /\ pc = "idle"
    /\ src_text = <<>>
    /\ src_lines = <<>>
    /\ src_md_text = <<>>
    /\ translated_lines = <<>>
    /\ backend_calls = <<>>
    /\ node_i = 0
    /\ start_pos = 0
    /\ final_md_text = <<>>
    /\ line_i = 0
    /\ final_markdown = <<>>
    /\ last_char = ""
    /\ expand_calls = <<>>
    /\ target_file = NoFile
    /\ error = NoError

MainLangs == {"en", "ja"}
Docs == {"a", "b"}
\* line 15: the field before its first assignment
Unset == "..."

\* the variables of main while main is not modelled
MainIdle ==
    /\ m_pc = "idle"
    /\ todo = <<>>
    /\ cur = Unset
    /\ config_target_langs = <<>>
    /\ lang_i = 0
    /\ target_langs = <<>>
    /\ skipped = {}
    /\ src_file = Unset
    /\ futures = <<>>
    /\ files = [f \in Docs \X MainLangs |-> "none"]

\* the lines the classifier is fed: one or more for every branch of the loop
ScanLines ==
    { <<>>, <<NL>>, <<Dash>>, <<Fence>>, <<Marker>>,
      <<KeyTitle, Word>>, <<KeyDate, Word>>, <<KeyTags, Word, Word>>,
      <<Hash1, Word>>, <<Hash2, Word>>, <<Word>>, <<Img>>, <<Link>> }

LoopState ==
    [is_front_matter |-> is_front_matter, is_code_block |-> is_code_block,
     do_not_trans |-> do_not_trans, insert_warnings |-> insert_warnings,
     nodes |-> nodes]

\* lines 31-37
NodesInit ==
    /\ config_insert_warnings \in BOOLEAN
    /\ config_front_matter \in TableConfigs
    /\ target_lang \in Langs
    /\ scanned = <<>>
    /\ is_front_matter = FALSE
    /\ is_code_block = FALSE
    /\ do_not_trans = FALSE
    /\ insert_warnings = config_insert_warnings
    /\ nodes = <<>>
    /\ TaskIdle
    /\ MainIdle

\* the loop consumes line: one iteration of lines 38-86
Scan(line) ==
    /\ Len(scanned) < MaxScan
    /\ LET st == LoopBody(LoopState, line, target_lang)
       IN  /\ is_front_matter' = st.is_front_matter
           /\ is_code_block' = st.is_code_block
           /\ do_not_trans' = st.do_not_trans
           /\ insert_warnings' = st.insert_warnings
           /\ nodes' = st.nodes
    /\ scanned' = Append(scanned, line)
    /\ UNCHANGED <<config_insert_warnings, config_front_matter, target_lang, taskVars, mainVars>>

ScanDash == \E line \in ScanLines : IsDashLine(line) /\ Scan(line)
ScanFence == \E line \in ScanLines : IsFenceLine(line) /\ Scan(line)
ScanMarker == \E line \in ScanLines : IsMarkerLine(line) /\ Scan(line)
ScanFrontMatter == \E line \in ScanLines : IsPlainLine(line) /\ is_front_matter /\ Scan(line)
ScanVerbatim ==
    \E line \in ScanLines :
        /\ IsPlainLine(line) /\ ~is_front_matter /\ (is_code_block \/ do_not_trans)
        /\ Scan(line)
ScanNormal ==
    \E line \in ScanLines :
        /\ IsPlainLine(line) /\ ~is_front_matter /\ ~is_code_block /\ ~do_not_trans
        /\ Scan(line)

NodesNext ==
    \/ ScanDash
    \/ ScanFence
    \/ ScanMarker
    \/ ScanFrontMatter
    \/ ScanVerbatim
    \/ ScanNormal

SpecNodes == NodesInit /\ [][NodesNext]_nodeVars

(* ---------------------- properties of the classifier ------------------ *)
WarningIdx == {i \in DOMAIN nodes : IsWarning(nodes[i])}
DashIdx == {i \in DOMAIN nodes : IsDashLine(nodes[i].line)}
IsLevel1(line) == StartsWith(Strip(line), {Hash1})
Level1TitleIdx == {i \in DOMAIN nodes : nodes[i].kind = "Title" /\ IsLevel1(nodes[i].line)}
WarnAfter(i) == (i + 1) \in WarningIdx
\* the i-th smallest element of a set of indices
RECURSIVE Nth(_, _)
Nth(S, i) ==
    LET m == CHOOSE x \in S : \A y \in S : x <= y
    IN  IF i = 1 THEN m ELSE Nth(S \ {m}, i - 1)
OpeningDash == Nth(DashIdx, 1)
ClosingDash == Nth(DashIdx, 2)
HasFrontMatter == Cardinality(DashIdx) >= 2

\* C4: __generate_nodes emits at most one disclaimer segment per document,
\* none when config.insert_warnings is off, and once a disclaimer has been
\* emitted the pending flag insert_warnings is off.
C4_AtMostOneDisclaimer ==
    /\ Cardinality(WarningIdx) <= (IF config_insert_warnings THEN 1 ELSE 0)
    /\ (WarningIdx # {} => ~insert_warnings)

\* C4 witness: a disclaimer was emitted and a later level-1 heading, a second
\* trigger, was classified without another one.
C4_Witness ==
    /\ Cardinality(WarningIdx) = 1
    /\ \E i \in WarningIdx : \E j \in Level1TitleIdx : j > i

\* C5 as stated: with insertion enabled and an opening and a closing `---`
\* line, the disclaimer is the segment right after the closing delimiter and
\* no disclaimer follows a level-1 heading, wherever the headings are.
C5_Original ==
    (config_insert_warnings /\ HasFrontMatter) =>
        /\ WarnAfter(ClosingDash)
        /\ \A i \in DOMAIN nodes : IsLevel1(nodes[i].line) => ~WarnAfter(i)

\* C5 amended: the same, for documents in which no level-1 heading is
\* emitted as a Title segment before the opening `---` line.
C5_DisclaimerAfterFrontMatter ==
    (/\ config_insert_warnings
     /\ HasFrontMatter
     /\ \A i \in Level1TitleIdx : i > OpeningDash) =>
        /\ WarningIdx = {ClosingDash + 1}
        /\ \A i \in DOMAIN nodes : IsLevel1(nodes[i].line) => ~WarnAfter(i)

\* C5 witness: front matter was closed with insertion enabled and a level-1
\* heading was classified as a Title after it.
C5_Witness ==
    /\ config_insert_warnings
    /\ HasFrontMatter
    /\ \E i \in Level1TitleIdx : i > ClosingDash
    /\ WarnAfter(ClosingDash)

(* --------------------- Spec: one task, __translate_to ----------------- *)
\* str.lower() on a language code
Lower(lang) == IF lang = "zh-TW" THEN "zh-tw" ELSE lang

\* Utils.full_width_symbol_to_half_width(line)
full_width_symbol_to_half_width(line) ==
    [i \in 1..Len(line) |-> IF line[i] = FullComma THEN HalfComma ELSE line[i]]

\* lines 20-24
preprocessing(lang, lines) ==
    LET folded == IF Lower(lang) # "zh-tw"
                  THEN [i \in 1..Len(lines) |-> full_width_symbol_to_half_width(lines[i])]
                  ELSE lines
    IN  Append(folded, <<NL>>)

\* line 96: the buffers of the nodes that have one, joined
BatchText(ns) ==
    Concat(SelectSeq([i \in 1..Len(ns) |-> get_trans_buff(ns[i])], LAMBDA b : b # <<>>))

\* the sum of trans_lines over a sequence of nodes
TotalTransLines(ns) == SumSeq([i \in 1..Len(ns) |-> ns[i].trans_lines])

\* the first b - a items, whatever a is
PySliceFromStart(seq, a, b) == SubSeq(seq, 1, IF b - a < Len(seq) THEN b - a ELSE Len(seq))

\* a Python slice seq[a:b] with 0 <= a <= b: clipped to the sequence
PySlice(seq, a, b) == SubSeq(seq, a + 1, IF b < Len(seq) THEN b ELSE Len(seq))

\* the j-th line of a response of the backend, which is opaque: the line
\* carries its position and text of the target language
TranslatedLine(lang, j) == IF lang = "en" THEN <<Word, ToString(j)>> ELSE <<Han, ToString(j)>>

Response(lang, m) == [j \in 1..m |-> TranslatedLine(lang, j)]

\* the response lengths tried for a batch of n lines: one line short, as
\* many, one line more; an empty batch is answered by an empty response
ResponseLens(n) == IF n = 0 THEN {0} ELSE {n - 1, n, n + 1}

\* the script class of a character
ScriptOf(ch) ==
    IF ch = Han THEN "han"
    ELSE IF ch \in {Word} \cup {ToString(j) : j \in 0..9} THEN "latin"
    ELSE "other"

Differs(a, b) == ScriptOf(a) # "other" /\ ScriptOf(b) # "other" /\ ScriptOf(a) # ScriptOf(b)

\* Patterns.Expands.split(line): the runs of the line
ExpandsSplit(line) == line

\* Utils.expand_part(part, parts, position, last_char), position from 0: a
\* space before the part when the last emitted character is of the other
\* script, a space after it when the next part is
expand_part(part, parts, position, last) ==
    (IF last # "" /\ Differs(last, part) THEN <<Space>> ELSE <<>>)
    \o <<part>>
    \o (IF position + 1 < Len(parts) /\ Differs(part, parts[position + 2])
        THEN <<Space>> ELSE <<>>)

NextLastCharKept(part, last) == last

\* line 133
NextLastChar(part, last) == IF part # <<>> THEN part[Len(part)] ELSE last

\* lines 131-134 from part number position on: <<text emitted, last_char>>
RECURSIVE ExpandParts(_, _, _)
ExpandParts(parts, position, last) ==
    IF position >= Len(parts) THEN <<<<>>, last>>
    ELSE LET part == expand_part(parts[position + 1], parts, position, last)
             rest == ExpandParts(parts, position + 1, NextLastChar(part, last))
         IN  <<part \o rest[1], rest[2]>>

\* the calls of expand_part lines 131-134 make for line number i, from part
\* number position on: the arguments and the part returned
RECURSIVE ExpandCalls(_, _, _, _)
ExpandCalls(i, parts, position, last) ==
    IF position >= Len(parts) THEN <<>>
    ELSE LET part == expand_part(parts[position + 1], parts, position, last)
         IN  <<[line |-> i, position |-> position, last_char |-> last, part |-> part]>>
             \o ExpandCalls(i, parts, position + 1, NextLastChar(part, last))

PassesThroughBlankOnly(line, lang) == Strip(line) = <<>>

\* line 127: the line is emitted as it is
PassesThrough(line, lang) == Strip(line) = <<>> \/ lang \in compact_langs

\* lines 126-135 for the lines from the first of lines on:
\* <<final_markdown, last_char>>
RECURSIVE ExpandLines(_, _, _)
ExpandLines(lines, lang, last) ==
    IF lines = <<>> THEN <<<<>>, last>>
    ELSE IF PassesThrough(Head(lines), lang)
         THEN LET rest == ExpandLines(Tail(lines), lang, last)
              IN  <<Head(lines) \o <<NL>> \o rest[1], rest[2]>>
         ELSE LET e == ExpandParts(ExpandsSplit(Head(lines)), 0, last)
                  rest == ExpandLines(Tail(lines), lang, e[2])
              IN  <<e[1] \o <<NL>> \o rest[1], rest[2]>>

\* the lines of the source documents of Spec: one line for each way a node
\* takes part in the batch, the splice and compose (an image-or-link line
\* does as a plain text line does; SpecNodes classifies it)
DocLines ==
    { <<Space>>, <<Dash>>, <<Fence>>, <<Marker>>, <<KeyTitle, Word>>,
      <<KeyTags, Word, Word>>, <<Hash1, Word>>, <<Han, Word, FullComma>> }

\* a text file with these lines
FileOf(lines) == Concat([i \in 1..Len(lines) |-> lines[i] \o <<NL>>])

ScanIdle ==
    /\ scanned = <<>>
    /\ is_front_matter = FALSE
    /\ is_code_block = FALSE
    /\ do_not_trans = FALSE
    /\ insert_warnings = FALSE

\* the task as it is submitted: main found no output file (line 193)
Init ==
    /\ config_insert_warnings \in BOOLEAN
    /\ config_front_matter = DefaultTables
    /\ target_lang \in Langs
    /\ nodes = <<>>
    /\ ScanIdle
    /\ pc = "read"
    /\ src_text \in {FileOf(ls) : ls \in SeqsUpTo(DocLines, MaxDocLines)}
    /\ src_lines = <<>>
    /\ src_md_text = <<>>
    /\ translated_lines = <<>>
    /\ backend_calls = <<>>
    /\ node_i = 0
    /\ start_pos = 0
    /\ final_md_text = <<>>
    /\ line_i = 0
    /\ final_markdown = <<>>
    /\ last_char = ""
    /\ expand_calls = <<>>
    /\ target_file = NoFile
    /\ error = NoError
    /\ MainIdle

\* an exception raised inside the try block of lines 119-137
Raise(e) ==
    /\ pc' = "except"
    /\ error' = e

\* the output file is opened for writing before the source is read
ReadTextOpensTarget ==
    /\ pc = "read"
    /\ pc' = "preprocessing"
    /\ src_lines' = splitlines(src_text)
    /\ target_file' = <<>>
    /\ UNCHANGED <<sharedVars, scanVars, mainVars, backend_calls, line_i, expand_calls,
                   src_text, src_md_text, translated_lines, node_i, start_pos,
                   final_md_text, final_markdown, last_char, error>>

\* line 120
ReadText ==
    /\ pc = "read"
    /\ pc' = "preprocessing"
    /\ src_lines' = splitlines(src_text)
    /\ UNCHANGED <<sharedVars, scanVars, mainVars, backend_calls, line_i, expand_calls, src_text, src_md_text, translated_lines, node_i,
                   start_pos, final_md_text, final_markdown, last_char, target_file, error>>

\* line 120: the file cannot be read or decoded
ReadTextRaises ==
    /\ pc = "read"
    /\ Raise("read")
    /\ UNCHANGED <<sharedVars, scanVars, mainVars, backend_calls, line_i, expand_calls, src_text, src_lines, src_md_text, translated_lines,
                   node_i, start_pos, final_md_text, final_markdown, last_char, target_file>>

\* line 122
Preprocessing ==
    /\ pc = "preprocessing"
    /\ pc' = "generate_nodes"
    /\ src_lines' = preprocessing(target_lang, src_lines)
    /\ UNCHANGED <<sharedVars, scanVars, mainVars, backend_calls, line_i, expand_calls, src_text, src_md_text, translated_lines, node_i,
                   start_pos, final_md_text, final_markdown, last_char, target_file, error>>

\* line 93
GenerateNodes ==
    /\ pc = "generate_nodes"
    /\ pc' = "batch"
    /\ nodes' = generate_nodes(src_lines, target_lang, config_insert_warnings)
    /\ UNCHANGED <<config_insert_warnings, config_front_matter, target_lang, scanVars, mainVars, backend_calls, line_i, expand_calls, src_text, src_lines,
                   src_md_text, translated_lines, node_i, start_pos, final_md_text,
                   final_markdown, last_char, target_file, error>>

\* line 93: __generate_nodes raises, a language without an entry in
\* config.warnings_mapping (lines 44, 83) or a node constructor
GenerateNodesRaises ==
    /\ pc = "generate_nodes"
    /\ Raise("classify")
    /\ UNCHANGED <<sharedVars, scanVars, mainVars, backend_calls, line_i, expand_calls,
                   src_text, src_lines, src_md_text, translated_lines, node_i, start_pos,
                   final_md_text, final_markdown, last_char, target_file>>

\* line 96
BuildBatch ==
    /\ pc = "batch"
    /\ pc' = "translate"
    /\ src_md_text' = BatchText(nodes)
    /\ UNCHANGED <<sharedVars, scanVars, mainVars, backend_calls, line_i, expand_calls, src_text, src_lines, translated_lines, node_i,
                   start_pos, final_md_text, final_markdown, last_char, target_file, error>>

\* one call for every line of the batch
CallBackendPerLine(calls, batch) == calls \o [i \in 1..Len(batch) |-> <<batch[i]>>]

\* line 97: self.trans.translate_in_batches is called with the lines of the
\* batch; calls is the record of the calls made so far
CallBackend(calls, batch) == Append(calls, batch)

\* lines 97 and 100: the backend answers the batch with m lines
TranslateInBatches ==
    /\ pc = "translate"
    /\ backend_calls' = CallBackend(backend_calls, splitlines(src_md_text))
    /\ \E m \in ResponseLens(Len(splitlines(src_md_text))) :
           translated_lines' = Response(target_lang, m)
    /\ pc' = "splice"
    /\ start_pos' = 0
    /\ node_i' = 0
    /\ UNCHANGED <<sharedVars, scanVars, mainVars, line_i, expand_calls, src_text, src_lines,
                   src_md_text, final_md_text, final_markdown, last_char, target_file, error>>

\* line 97: the backend is called and raises
TranslateRaises ==
    /\ pc = "translate"
    /\ backend_calls' = CallBackend(backend_calls, splitlines(src_md_text))
    /\ Raise("backend")
    /\ UNCHANGED <<sharedVars, scanVars, mainVars, line_i, expand_calls, src_text, src_lines,
                   src_md_text, translated_lines, node_i, start_pos, final_md_text, final_markdown,
                   last_char, target_file>>

AdvanceByOne(pos, node) == pos + 1

\* line 108
Advance(pos, node) == pos + node.trans_lines

SpliceFrame ==
    UNCHANGED <<config_insert_warnings, config_front_matter, target_lang, scanVars, mainVars, backend_calls, line_i, expand_calls, src_text, src_lines,
                src_md_text, translated_lines, final_md_text, final_markdown, last_char,
                target_file>>

\* lines 102-103
SpliceSkip ==
    /\ pc = "splice"
    /\ node_i < Len(nodes)
    /\ nodes[node_i + 1].trans_lines = 0
    /\ node_i' = node_i + 1
    /\ UNCHANGED <<nodes, start_pos, pc, error>>
    /\ SpliceFrame

\* lines 104-105 and 108
SpliceOne ==
    /\ pc = "splice"
    /\ node_i < Len(nodes)
    /\ nodes[node_i + 1].trans_lines = 1
    /\ start_pos < Len(translated_lines)
    /\ nodes' = [nodes EXCEPT ![node_i + 1].value = translated_lines[start_pos + 1]]
    /\ start_pos' = Advance(start_pos, nodes[node_i + 1])
    /\ node_i' = node_i + 1
    /\ UNCHANGED <<pc, error>>
    /\ SpliceFrame

\* line 105: translated_lines[start_pos] is past the end, an IndexError
SpliceOneRaises ==
    /\ pc = "splice"
    /\ node_i < Len(nodes)
    /\ nodes[node_i + 1].trans_lines = 1
    /\ start_pos >= Len(translated_lines)
    /\ Raise("IndexError")
    /\ UNCHANGED <<nodes, start_pos, node_i>>
    /\ SpliceFrame

\* lines 106-108: a slice, which Python clips to the list
SpliceMany ==
    /\ pc = "splice"
    /\ node_i < Len(nodes)
    /\ nodes[node_i + 1].trans_lines > 1
    /\ nodes' = [nodes EXCEPT ![node_i + 1].value =
                    JoinNL(PySlice(translated_lines, start_pos,
                                   start_pos + nodes[node_i + 1].trans_lines))]
    /\ start_pos' = Advance(start_pos, nodes[node_i + 1])
    /\ node_i' = node_i + 1
    /\ UNCHANGED <<pc, error>>
    /\ SpliceFrame

\* line 110
Compose ==
    /\ pc = "splice"
    /\ node_i = Len(nodes)
    /\ final_md_text' = Concat([i \in 1..Len(nodes) |-> compose(nodes[i])])
    /\ pc' = "expand"
    /\ UNCHANGED <<sharedVars, scanVars, mainVars, backend_calls, line_i, expand_calls, src_text, src_lines, src_md_text, translated_lines,
                   node_i, start_pos, final_markdown, last_char, target_file, error>>

\* the lines the loop of line 126 runs over
ExpandLoopLines == splitlines(final_md_text)

ExpandFrame ==
    UNCHANGED <<sharedVars, scanVars, mainVars, backend_calls, src_text, src_lines,
                src_md_text, translated_lines, node_i, start_pos, final_md_text,
                target_file, error>>

\* lines 127-129: the line is appended as it is
ExpandPass ==
    /\ pc = "expand"
    /\ line_i < Len(ExpandLoopLines)
    /\ PassesThrough(ExpandLoopLines[line_i + 1], target_lang)
    /\ final_markdown' = final_markdown \o ExpandLoopLines[line_i + 1] \o <<NL>>
    /\ line_i' = line_i + 1
    /\ UNCHANGED <<pc, last_char, expand_calls>>
    /\ ExpandFrame

\* lines 130-135: the parts of the line are expanded and appended
ExpandLine ==
    /\ pc = "expand"
    /\ line_i < Len(ExpandLoopLines)
    /\ ~PassesThrough(ExpandLoopLines[line_i + 1], target_lang)
    /\ LET parts == ExpandsSplit(ExpandLoopLines[line_i + 1])
           e == ExpandParts(parts, 0, last_char)
       IN  /\ final_markdown' = final_markdown \o e[1] \o <<NL>>
           /\ last_char' = e[2]
           /\ expand_calls' = expand_calls \o ExpandCalls(line_i + 1, parts, 0, last_char)
    /\ line_i' = line_i + 1
    /\ UNCHANGED pc
    /\ ExpandFrame

\* lines 130-132: the split or expand_part raises
ExpandRaises ==
    /\ pc = "expand"
    /\ line_i < Len(ExpandLoopLines)
    /\ ~PassesThrough(ExpandLoopLines[line_i + 1], target_lang)
    /\ Raise("expand")
    /\ UNCHANGED <<line_i, final_markdown, last_char, expand_calls>>
    /\ UNCHANGED <<sharedVars, scanVars, mainVars, backend_calls, src_text, src_lines,
                   src_md_text, translated_lines, node_i, start_pos, final_md_text,
                   target_file>>

\* line 126: no line is left
ExpandEnd ==
    /\ pc = "expand"
    /\ line_i = Len(ExpandLoopLines)
    /\ pc' = "write"
    /\ UNCHANGED <<line_i, final_markdown, last_char, expand_calls>>
    /\ ExpandFrame

\* lines 136-137
WriteText ==
    /\ pc = "write"
    /\ target_file' = RStripNL(final_markdown)
    /\ pc' = "done"
    /\ UNCHANGED <<sharedVars, scanVars, mainVars, backend_calls, line_i, expand_calls, src_text, src_lines, src_md_text, translated_lines,
                   node_i, start_pos, final_md_text, final_markdown, last_char, error>>

\* line 136: write_text raises, before the file is created or after it was
\* opened for writing, which leaves it empty
WriteTextRaises ==
    /\ pc = "write"
    /\ target_file' \in {target_file, <<>>}
    /\ Raise("write")
    /\ UNCHANGED <<sharedVars, scanVars, mainVars, backend_calls, line_i, expand_calls, src_text, src_lines, src_md_text, translated_lines,
                   node_i, start_pos, final_md_text, final_markdown, last_char>>

\* lines 138-140: the exception is logged and the task returns
Except ==
    /\ pc = "except"
    /\ pc' = "done"
    /\ UNCHANGED <<sharedVars, scanVars, mainVars, backend_calls, line_i, expand_calls, src_text, src_lines, src_md_text, translated_lines,
                   node_i, start_pos, final_md_text, final_markdown, last_char, target_file,
                   error>>

Next ==
    \/ ReadText
    \/ ReadTextRaises
    \/ Preprocessing
    \/ GenerateNodes
    \/ GenerateNodesRaises
    \/ BuildBatch
    \/ TranslateInBatches
    \/ TranslateRaises
    \/ SpliceSkip
    \/ SpliceOne
    \/ SpliceOneRaises
    \/ SpliceMany
    \/ Compose
    \/ ExpandPass
    \/ ExpandLine
    \/ ExpandRaises
    \/ ExpandEnd
    \/ WriteText
    \/ WriteTextRaises
    \/ Except

vars == <<sharedVars, scanVars, taskVars, mainVars>>

Spec == Init /\ [][Next]_vars

(* ------------------------- properties of the task --------------------- *)
\* the backend has answered
Translated ==
    \/ pc \in {"splice", "expand", "write"}
    \/ pc \in {"except", "done"} /\ error \in {NoError, "IndexError", "expand", "write"}

\* the batch of line 96 has been built
BatchBuilt == Translated \/ pc = "translate" \/ error = "backend"

\* the loop of lines 101-108 ran to its end
SpliceFinished == Translated /\ error # "IndexError" /\ node_i = Len(nodes)

BatchLines == splitlines(src_md_text)

\* the response lines the splice gave a node
AssignedLines(node) == Len(splitlines(node.value))

\* C1: the sum of trans_lines over the nodes equals the number of lines of
\* the batch handed to the backend, and the final value of start_pos.
C1_Conservation ==
    /\ BatchBuilt => TotalTransLines(nodes) = Len(BatchLines)
    /\ SpliceFinished => start_pos = TotalTransLines(nodes)

\* C1 witness: the splice ran to its end over nodes of 0, 1 and 2 lines.
C1_Witness ==
    /\ SpliceFinished
    /\ \E i \in DOMAIN nodes : nodes[i].trans_lines = 0
    /\ \E i \in DOMAIN nodes : nodes[i].trans_lines = 1
    /\ \E i \in DOMAIN nodes : nodes[i].trans_lines = 2
    /\ Len(translated_lines) = start_pos

\* C2 as stated: a response with fewer lines than the nodes expect ends the
\* splice in an error, no document text is produced, and no node is given
\* fewer lines than its trans_lines.
C2_Original ==
    (Translated /\ Len(translated_lines) < TotalTransLines(nodes)) =>
        /\ ~SpliceFinished
        /\ final_md_text = <<>>
        /\ \A j \in 1..node_i :
               nodes[j].trans_lines > 0 => AssignedLines(nodes[j]) = nodes[j].trans_lines

\* C3 as stated: a response whose line count differs from the batch's ends
\* the task in an error and no output file is written.
C3_Original ==
    (Translated /\ Len(translated_lines) # Len(BatchLines) /\ pc = "done") =>
        /\ error # NoError
        /\ target_file = NoFile

\* the flags of the classifier before line i of lines
FlagsBefore(lines, i) == LoopFrom(LoopInit(FALSE), SubSeq(lines, 1, i - 1), "en")

\* line i is a delimiter, a fence, a marker, blank, a media embed, or inside
\* a code block or a do-not-translate region
Protected(lines, i) ==
    \/ IsDashLine(lines[i])
    \/ StartsWith(lines[i], {Fence, Marker, Audio, Img})
    \/ Strip(lines[i]) = <<>>
    \/ FlagsBefore(lines, i).is_code_block
    \/ FlagsBefore(lines, i).do_not_trans

RawLines == splitlines(src_text)

\* C6 as stated: every protected line of the source document is a line of
\* the written output file, unchanged.
C6_Original ==
    (pc = "done" /\ error = NoError) =>
        \A i \in DOMAIN RawLines :
            Protected(RawLines, i) =>
                \E k \in DOMAIN splitlines(target_file) :
                    splitlines(target_file)[k] = RawLines[i]

(* ------------- SpecMain: main, __parallel_translate, the pool --------- *)
\* the text a task of document doc writes at line 136
Translation(doc) == IF doc = "a" THEN "translation of a" ELSE "translation of b"

\* Path.exists() of an output file
Exists(f) == files[f] # "none"

\* the steps of lines 120-135 that can raise
PipelineSteps == {"read", "classify", "backend", "splice", "expand"}

\* the lists of source files main visits (folders x config.src_filenames):
\* one document, one document twice, two documents
TodoLists == {<<"a">>, <<"a", "a">>, <<"a", "b">>}

\* the output files that exist before the run
OldFiles == {{}, {<<"a", "en">>}, {<<"a", "en">>, <<"a", "ja">>}, {<<"b", "ja">>}}

MainInit ==
    /\ config_insert_warnings = FALSE
    /\ config_front_matter = DefaultTables
    /\ target_lang = "en"
    /\ nodes = <<>>
    /\ ScanIdle
    /\ TaskIdle
    /\ m_pc = "for_src"
    /\ todo \in TodoLists
    /\ cur = Unset
    /\ config_target_langs \in SeqsUpTo(MainLangs, MaxLangs)
    /\ lang_i = 0
    /\ target_langs = <<>>
    /\ skipped = {}
    /\ src_file = Unset
    /\ futures = <<>>
    /\ \E old \in OldFiles :
           files = [f \in Docs \X MainLangs |-> IF f \in old THEN "old" ELSE "none"]

MainFrame == UNCHANGED <<sharedVars, scanVars, taskVars, config_target_langs>>

\* lines 185-190: the next source file exists
NextSrc ==
    /\ m_pc = "for_src"
    /\ todo # <<>>
    /\ cur' = Head(todo)
    /\ todo' = Tail(todo)
    /\ m_pc' = "for_lang"
    /\ lang_i' = 0
    /\ target_langs' = <<>>
    /\ skipped' = {}
    /\ futures' = <<>>
    /\ UNCHANGED <<src_file, files>>
    /\ MainFrame

\* lines 185-188: the next source file does not exist
NextSrcMissing ==
    /\ m_pc = "for_src"
    /\ todo # <<>>
    /\ todo' = Tail(todo)
    /\ UNCHANGED <<m_pc, cur, lang_i, target_langs, skipped, src_file, futures, files>>
    /\ MainFrame

\* line 185: no source file is left
EndMain ==
    /\ m_pc = "for_src"
    /\ todo = <<>>
    /\ m_pc' = "end"
    /\ UNCHANGED <<todo, cur, lang_i, target_langs, skipped, src_file, futures, files>>
    /\ MainFrame

AppendAlways(tl, lang, exists) == Append(tl, lang)

\* lines 193-196: target_langs after the language lang
AppendUnlessExists(tl, lang, exists) == IF exists THEN tl ELSE Append(tl, lang)

\* lines 191-196: one iteration
CheckLang ==
    /\ m_pc = "for_lang"
    /\ lang_i < Len(config_target_langs)
    /\ LET lang == config_target_langs[lang_i + 1]
       IN  /\ target_langs' = AppendUnlessExists(target_langs, lang, Exists(<<cur, lang>>))
           /\ skipped' = IF Exists(<<cur, lang>>) THEN skipped \cup {lang} ELSE skipped
    /\ lang_i' = lang_i + 1
    /\ UNCHANGED <<m_pc, todo, cur, src_file, futures, files>>
    /\ MainFrame

\* lines 198, 149-150: nothing to translate
ParallelTranslateEmpty ==
    /\ m_pc = "for_lang"
    /\ lang_i = Len(config_target_langs)
    /\ Len(target_langs) = 0
    /\ m_pc' = "for_src"
    /\ UNCHANGED <<todo, cur, lang_i, target_langs, skipped, src_file, futures, files>>
    /\ MainFrame

\* lines 198, 149-152
ParallelTranslate ==
    /\ m_pc = "for_lang"
    /\ lang_i = Len(config_target_langs)
    /\ Len(target_langs) # 0
    /\ src_file' = cur
    /\ m_pc' = "submit"
    /\ UNCHANGED <<todo, cur, lang_i, target_langs, skipped, futures, files>>
    /\ MainFrame

\* the future of a task as it is submitted; doc is the document main
\* submits it for, src the value of self.__src_file the task has read
NewFuture(doc, lang) == [doc |-> doc, lang |-> lang, pc |-> "queued", src |-> Unset, err |-> NoError]

\* line 154: one submit of the list comprehension
Submit ==
    /\ m_pc = "submit"
    /\ Len(futures) < Len(target_langs)
    /\ futures' = Append(futures, NewFuture(cur, target_langs[Len(futures) + 1]))
    /\ UNCHANGED <<m_pc, todo, cur, lang_i, target_langs, skipped, src_file, files>>
    /\ MainFrame

\* line 155: the list is complete
Submitted ==
    /\ m_pc = "submit"
    /\ Len(futures) = Len(target_langs)
    /\ m_pc' = "wait"
    /\ UNCHANGED <<todo, cur, lang_i, target_langs, skipped, src_file, futures, files>>
    /\ MainFrame

AnyDone(fs) == \E i \in DOMAIN fs : fs[i].pc = "done"

\* line 157, concurrent.futures.wait with return_when = ALL_COMPLETED
AllDone(fs) == \A i \in DOMAIN fs : fs[i].pc = "done"

\* lines 157-163
Wait ==
    /\ m_pc = "wait"
    /\ AllDone(futures)
    /\ m_pc' = "for_src"
    /\ UNCHANGED <<todo, cur, lang_i, target_langs, skipped, src_file, futures, files>>
    /\ MainFrame

Running(fs) == {i \in DOMAIN fs : fs[i].pc \in {"translate", "write", "except"}}

TaskFrame == UNCHANGED <<m_pc, todo, cur, lang_i, target_langs, skipped, src_file>>

\* a worker of the pool takes the task; lines 116-120: the task reads
\* self.__src_file and the text of that file
TaskStart(i) ==
    /\ futures[i].pc = "queued"
    /\ Cardinality(Running(futures)) < MaxWorkers
    /\ \A j \in 1..(i - 1) : futures[j].pc # "queued"
    /\ futures' = [futures EXCEPT ![i].pc = "translate", ![i].src = src_file]
    /\ UNCHANGED files
    /\ TaskFrame
    /\ MainFrame

\* lines 120-135 run through
TaskTranslate(i) ==
    /\ futures[i].pc = "translate"
    /\ futures' = [futures EXCEPT ![i].pc = "write"]
    /\ UNCHANGED files
    /\ TaskFrame
    /\ MainFrame

\* one of lines 120-135 raises
TaskRaises(i) ==
    /\ futures[i].pc = "translate"
    /\ \E e \in PipelineSteps : futures' = [futures EXCEPT ![i].pc = "except", ![i].err = e]
    /\ UNCHANGED files
    /\ TaskFrame
    /\ MainFrame

\* lines 136-137
TaskWrite(i) ==
    /\ futures[i].pc = "write"
    /\ files' = [files EXCEPT ![<<futures[i].src, futures[i].lang>>] = Translation(futures[i].src)]
    /\ futures' = [futures EXCEPT ![i].pc = "done"]
    /\ TaskFrame
    /\ MainFrame

\* line 136 raises before the file is opened
TaskWriteRaises(i) ==
    /\ futures[i].pc = "write"
    /\ futures' = [futures EXCEPT ![i].pc = "except", ![i].err = "write"]
    /\ UNCHANGED files
    /\ TaskFrame
    /\ MainFrame

\* line 136 raises after the file was opened for writing: it is left empty
TaskWriteRaisesEmpty(i) ==
    /\ futures[i].pc = "write"
    /\ files' = [files EXCEPT ![<<futures[i].src, futures[i].lang>>] = "empty"]
    /\ futures' = [futures EXCEPT ![i].pc = "except", ![i].err = "write"]
    /\ TaskFrame
    /\ MainFrame

\* lines 138-140: the exception is logged, the task returns
TaskExcept(i) ==
    /\ futures[i].pc = "except"
    /\ futures' = [futures EXCEPT ![i].pc = "done"]
    /\ UNCHANGED files
    /\ TaskFrame
    /\ MainFrame

MainNext ==
    \/ NextSrc
    \/ NextSrcMissing
    \/ EndMain
    \/ CheckLang
    \/ ParallelTranslateEmpty
    \/ ParallelTranslate
    \/ Submit
    \/ Submitted
    \/ Wait
    \/ \E i \in DOMAIN futures : TaskStart(i)
    \/ \E i \in DOMAIN futures : TaskTranslate(i)
    \/ \E i \in DOMAIN futures : TaskRaises(i)
    \/ \E i \in DOMAIN futures : TaskWrite(i)
    \/ \E i \in DOMAIN futures : TaskWriteRaises(i)
    \/ \E i \in DOMAIN futures : TaskWriteRaisesEmpty(i)
    \/ \E i \in DOMAIN futures : TaskExcept(i)

SpecMain == MainInit /\ [][MainNext]_vars

(* ---------------------- properties of the orchestrator ---------------- *)
\* __parallel_translate has returned for the document cur
AggregateDone == m_pc \in {"for_src", "end"} /\ futures # <<>>

Failed(i) == futures[i].err # NoError

\* no task of the language of task i raised
LangClean(i) == \A j \in DOMAIN futures : futures[j].lang = futures[i].lang => ~Failed(j)

C7_Step ==
    /\ \A l \in skipped :
           /\ files'[<<cur, l>>] = files[<<cur, l>>]
           /\ \A i \in DOMAIN futures' : futures'[i].doc = cur => futures'[i].lang # l
    /\ \A f \in DOMAIN files : files[f] = "old" => files'[f] = "old"

\* C7: a language whose output file exists when main checks it (line 193) is
\* given no task, so no backend call is made for it, and its file is never
\* written, however often the document is visited; a file that existed
\* before the run is never modified.
C7_Idempotent == [][C7_Step]_vars

\* C7 witness: a document is visited again; the language translated by the
\* earlier visit is skipped while a task of another language has run.
C7_Witness ==
    /\ \E l \in skipped : files[<<cur, l>>] = Translation(cur)
    /\ \E i \in DOMAIN futures : futures[i].pc = "done" /\ ~Failed(i)

\* C8: when __parallel_translate returns, every submitted task has run to
\* its end, whichever tasks raised, and every language none of whose tasks
\* raised has its complete output file.
C8_FailureIsolation ==
    AggregateDone =>
        \A i \in DOMAIN futures :
            /\ futures[i].pc = "done"
            /\ LangClean(i) => files[<<cur, futures[i].lang>>] = Translation(cur)

\* C8 witness: the aggregate call returned, a task raised and the task of
\* another language wrote its file.
C8_Witness ==
    /\ AggregateDone
    /\ \E i, j \in DOMAIN futures :
           /\ Failed(i)
           /\ futures[j].lang # futures[i].lang
           /\ LangClean(j)
           /\ files[<<cur, futures[j].lang>>] = Translation(cur)

\* C9 as stated: exactly one task is submitted for every requested language
\* whose output file does not exist, and the aggregate call returns only
\* after every submitted task has finished.
C9_Original ==
    /\ m_pc = "wait" =>
           \A k \in DOMAIN config_target_langs :
               config_target_langs[k] \notin skipped =>
                   Cardinality({i \in DOMAIN futures :
                                    futures[i].lang = config_target_langs[k]}) = 1
    /\ AggregateDone => AllDone(futures)

\* C10 as stated: while a task runs, self.__src_file is the document the task
\* was submitted for, and two tasks that run at the same time write to
\* distinct output files.
C10_Original ==
    /\ \A i \in Running(futures) : src_file = futures[i].doc /\ futures[i].src = futures[i].doc
    /\ \A i, j \in Running(futures) :
           i # j => <<futures[i].src, futures[i].lang>> # <<futures[j].src, futures[j].lang>>

(* ------------------- the batch and the splice of the task ------------- *)
\* the translatable lines of all nodes, in the order of the nodes
AllTransLines(ns) == Concat([i \in 1..Len(ns) |-> TransText(ns[i])])

\* the nodes that have been given a translated value
FilledIdx == {i \in DOMAIN nodes : nodes[i].value # nodes[i].line}

\* the state the call of line 97 leaves: the splice has not begun
JustCalled == backend_calls # <<>> /\ node_i = 0

\* C11: a task calls the backend at most once, and exactly once as soon as
\* it is past line 97; the one call is handed the lines of the batch, which
\* are the translatable lines of all nodes in node order; when it is made
\* the nodes are those of the classification of all of src_lines, and no
\* node holds a translated value before it.
C11_OneBackendCall ==
    /\ Len(backend_calls) <= 1
    /\ (Translated \/ error = "backend") => Len(backend_calls) = 1
    /\ backend_calls = <<>> => FilledIdx = {} /\ node_i = 0
    /\ backend_calls # <<>> => backend_calls[1] = BatchLines
    /\ JustCalled =>
           /\ nodes = generate_nodes(src_lines, target_lang, config_insert_warnings)
           /\ backend_calls[1] = AllTransLines(nodes)

\* C11 witness: a task ran to its end; its one call carried two or more
\* lines of a document that also has a Transparent node, and nodes were
\* filled after it.
C11_Witness ==
    /\ pc = "done"
    /\ error = NoError
    /\ Len(backend_calls) = 1
    /\ Len(backend_calls[1]) >= 2
    /\ \E i \in DOMAIN nodes : nodes[i].kind = "Transparent" /\ i < Len(nodes)
    /\ Cardinality(FilledIdx) >= 2

\* s_j: the sum of trans_lines of the nodes before node j
CursorAt(j) == TotalTransLines(SubSeq(nodes, 1, j - 1))

\* the position in the response of one of its lines
PosOf(line) ==
    CHOOSE k \in 1..Len(translated_lines) : TranslatedLine(target_lang, k) = line

\* the positions of the response lines node j holds, in the order it holds them
ReceivedPos(j) ==
    IF j \in FilledIdx
    THEN LET ls == splitlines(nodes[j].value) IN [k \in 1..Len(ls) |-> PosOf(ls[k])]
    ELSE <<>>

\* the positions s + 1 .. s + c that the response has
PosRange(s, c) ==
    LET n == IF s + c <= Len(translated_lines) THEN c
             ELSE IF s <= Len(translated_lines) THEN Len(translated_lines) - s ELSE 0
    IN  [k \in 1..n |-> s + k]

\* C12: every node j the splice loop has passed holds the response lines at
\* the positions CursorAt(j) + 1 .. CursorAt(j) + trans_lines (0-based:
\* [s_j, s_j + c_j)), in response order and all of them when the response
\* has them; a node with trans_lines = 0 holds none; start_pos is the sum of
\* trans_lines of the nodes passed, so a node of count 0 leaves it unchanged;
\* no response line is held by two nodes and the positions held grow with
\* the nodes; the nodes not yet passed hold nothing.
C12_PositionalSplice ==
    LET pos == [j \in DOMAIN nodes |-> ReceivedPos(j)]
        all == Concat(pos)
    IN  /\ start_pos = CursorAt(node_i + 1)
        /\ \A j \in 1..node_i :
               /\ nodes[j].trans_lines = 0 => j \notin FilledIdx
               /\ nodes[j].trans_lines > 0 =>
                      pos[j] = PosRange(CursorAt(j), nodes[j].trans_lines)
        /\ \A j \in DOMAIN nodes : j > node_i => j \notin FilledIdx
        /\ \A k \in 1..(Len(all) - 1) : all[k] < all[k + 1]

\* C12 witness: the loop ran to its end over a node of count 0, then a
\* node of count 1, then a node of count 2 that holds the response lines 2
\* and 3, then a node that holds line 4.
C12_Witness ==
    /\ SpliceFinished
    /\ \E j \in DOMAIN nodes :
           /\ j > 2 /\ j < Len(nodes)
           /\ nodes[1].trans_lines = 0
           /\ nodes[j - 1].trans_lines = 1
           /\ nodes[j].trans_lines = 2
           /\ ReceivedPos(j) = <<2, 3>>
           /\ ReceivedPos(j + 1) = <<4>>

(* -------------------- the classifier, line by line -------------------- *)
\* the line the loop consumes in this step
ThisLine == scanned'[Len(scanned')]

\* this step consumes one line
ConsumesLine == scanned' = Append(scanned, ThisLine)

\* this step appends exactly one node
AppendsOne == Len(nodes') = Len(nodes) + 1 /\ SubSeq(nodes', 1, Len(nodes)) = nodes

NewNode == nodes'[Len(nodes')]

C13_Step ==
    (/\ ConsumesLine
     /\ ~IsDashLine(ThisLine)
     /\ ~StartsWith(ThisLine, {Fence})
     /\ ~StartsWith(ThisLine, {Marker})
     /\ ~is_front_matter
     /\ (is_code_block \/ do_not_trans)) =>
        /\ AppendsOne
        /\ NewNode.kind = "Transparent"
        /\ NewNode.line = ThisLine
        /\ NewNode.trans_lines = 0
        /\ get_trans_buff(NewNode) = <<>>

\* C13: a line that is not a `---` line, a fence line or a marker and is
\* consumed while is_front_matter is off and is_code_block or do_not_trans is
\* on yields one Transparent node of that line, which has trans_lines = 0 and
\* an empty translation buffer.
C13_VerbatimTransparent == [][C13_Step]_vars

\* C13 witness: a level-1 heading was consumed inside a do-not-translate
\* region, outside front matter and code blocks, and is a Transparent node.
C13_Witness ==
    /\ Len(scanned) >= 2
    /\ scanned[Len(scanned)] = <<Hash1, Word>>
    /\ do_not_trans /\ ~is_code_block /\ ~is_front_matter
    /\ nodes # <<>>
    /\ nodes[Len(nodes)] = TransparentNode(<<Hash1, Word>>)

\* the number of lines of a sequence that satisfy Test
CountLines(lines, Test(_)) == Len(SelectSeq(lines, Test))

Odd(n) == n % 2 = 1

DashTest(line) == Strip(line) = <<Dash>>
FenceTest(line) == StartsWith(line, {Fence})
MarkerTest(line) == StartsWith(line, {Marker})

\* after the lines consumed so far every flag is the parity of its own lines
C14_Parity ==
    /\ is_front_matter = Odd(CountLines(scanned, DashTest))
    /\ is_code_block = Odd(CountLines(scanned, FenceTest))
    /\ do_not_trans = Odd(CountLines(scanned, MarkerTest))

\* the flags this step changes
Toggled ==
    {f \in {"is_front_matter", "is_code_block", "do_not_trans"} :
        \/ f = "is_front_matter" /\ is_front_matter' # is_front_matter
        \/ f = "is_code_block" /\ is_code_block' # is_code_block
        \/ f = "do_not_trans" /\ do_not_trans' # do_not_trans}

C14_Step ==
    ConsumesLine =>
        /\ Cardinality(Toggled) <= 1
        /\ DashTest(ThisLine) => Toggled = {"is_front_matter"}
        /\ FenceTest(ThisLine) => Toggled = {"is_code_block"}
        /\ MarkerTest(ThisLine) => Toggled = {"do_not_trans"}
        /\ (DashTest(ThisLine) \/ FenceTest(ThisLine)) =>
               /\ Len(nodes') > Len(nodes)
               /\ SubSeq(nodes', 1, Len(nodes)) = nodes
               /\ nodes'[Len(nodes) + 1] = TransparentNode(ThisLine)

\* C14: after any prefix of the input is_front_matter is the parity of the
\* `---` lines consumed, is_code_block that of the fence lines and
\* do_not_trans that of the marker lines; a line toggles at most one flag,
\* its own, whatever the other flags are; a `---` line and a fence line are
\* appended as Transparent nodes in every state of the flags.
C14_IndependentToggles == []C14_Parity /\ [][C14_Step]_vars

\* C14 witness: a fence, a marker and a `---` line were consumed in this
\* order: the three flags are on together and the `---` line, consumed
\* inside the code block and the do-not-translate region, is Transparent.
C14_Witness ==
    /\ scanned = <<(<<Fence>>), (<<Marker>>), (<<Dash>>)>>
    /\ is_front_matter /\ is_code_block /\ do_not_trans
    /\ nodes = <<TransparentNode(<<Fence>>), TransparentNode(<<Dash>>)>>

\* the line starts with a prefix of the table
InTable(line, table) == StartsWith(line, table)

\* the node this step appends first
FirstNewNode == nodes'[Len(nodes) + 1]

AppendsSome == Len(nodes') > Len(nodes) /\ SubSeq(nodes', 1, Len(nodes)) = nodes

C15_OriginalStep ==
    (ConsumesLine /\ is_front_matter /\ ~MarkerTest(ThisLine) /\ ~DashTest(ThisLine)) =>
        /\ AppendsSome
        /\ FirstNewNode.line = ThisLine
        /\ InTable(ThisLine, config_front_matter.key_value_keys) =>
               FirstNewNode.kind = "KeyValue"
        /\ InTable(ThisLine, config_front_matter.key_value_array_keys) =>
               FirstNewNode.kind = "KeyValueArray"
        /\ InTable(ThisLine, config_front_matter.transparent_keys) =>
               FirstNewNode.kind = "Transparent"
        /\ (/\ ~InTable(ThisLine, config_front_matter.key_value_keys)
            /\ ~InTable(ThisLine, config_front_matter.key_value_array_keys)
            /\ ~InTable(ThisLine, config_front_matter.transparent_keys)) =>
               FirstNewNode.kind = "Solid"

\* C15 as stated: with is_front_matter on, every line that is not a marker
\* becomes KeyValue when it is in the scalar table, KeyValueArray when in the
\* array table, Transparent when in the pass-through table and Solid
\* otherwise, for any three disjoint tables.  The `---` line that turns the
\* flag off is not taken as a line met while the flag is on.
C15_Original == [][C15_OriginalStep]_vars

\* the kind the tables give a line: the first table, in the order scalar,
\* pass-through, array, that has a prefix of the line
KindByTables(line) ==
    IF InTable(line, config_front_matter.key_value_keys) THEN "KeyValue"
    ELSE IF InTable(line, config_front_matter.transparent_keys) THEN "Transparent"
    ELSE IF InTable(line, config_front_matter.key_value_array_keys) THEN "KeyValueArray"
    ELSE "Solid"

C15_Step ==
    (/\ ConsumesLine
     /\ is_front_matter
     /\ ~DashTest(ThisLine)
     /\ ~FenceTest(ThisLine)
     /\ ~MarkerTest(ThisLine)) =>
        /\ AppendsOne
        /\ NewNode.line = ThisLine
        /\ NewNode.kind = KindByTables(ThisLine)
        /\ UNCHANGED <<is_front_matter, is_code_block, do_not_trans, insert_warnings>>

\* C15 amended: with is_front_matter on, every line that is not a `---`
\* line, a fence line or a marker yields one node whose kind the tables alone
\* decide, whatever is_code_block and do_not_trans are: KeyValue when the
\* line starts with a scalar prefix, else Transparent when it starts with a
\* pass-through prefix, else KeyValueArray when it starts with an array
\* prefix, else Solid; for any three disjoint tables.
C15_FrontMatterByTables == [][C15_Step]_vars

\* C15 witness: inside front matter and a code block, a line of an array key
\* was consumed and is a KeyValueArray node.
C15_Witness ==
    /\ scanned = <<(<<Dash>>), (<<Fence>>), (<<KeyTags, Word, Word>>)>>
    /\ is_front_matter /\ is_code_block
    /\ config_front_matter = DefaultTables
    /\ nodes[Len(nodes)].kind = "KeyValueArray"

\* the lines of the nodes that are not the disclaimer, in node order
NodeLines == 
    LET ns == SelectSeq(nodes, LAMBDA n : ~IsWarning(n))
    IN  [i \in 1..Len(ns) |-> ns[i].line]

NotMarker(line) == ~MarkerTest(line)

\* every marker line consumed yields no node and every other line one node
\* of that line, in input order; the disclaimer is the only other node; the
\* loop can take every line as the next one
C16_Count ==
    /\ NodeLines = SelectSeq(scanned, NotMarker)
    /\ Cardinality(WarningIdx) \in {0, 1}
    /\ Len(nodes) = Len(scanned) - CountLines(scanned, MarkerTest) + Cardinality(WarningIdx)
    /\ Len(scanned) < MaxScan => \A line \in ScanLines : ENABLED Scan(line)

\* a step of the loop consumes the next line and no other, and keeps the
\* nodes it has made
C16_Step == ConsumesLine /\ Len(nodes') >= Len(nodes) /\ SubSeq(nodes', 1, Len(nodes)) = nodes

\* C16: the loop consumes one line per iteration, in order, and an iteration
\* is enabled for every line in every state of the flags; a marker line
\* yields no node, every other line exactly one node of that line in input
\* order, and the only other node is the disclaimer, at most one: Len(nodes)
\* = lines - marker lines + disclaimers.
C16_OneNodePerLine == []C16_Count /\ [][C16_Step]_vars

\* C16 witness: three lines were consumed, one of them a marker whose region
\* is never closed, and the disclaimer was inserted: 3 - 1 + 1 nodes.
C16_Witness ==
    /\ Len(scanned) = 3
    /\ CountLines(scanned, MarkerTest) = 1
    /\ do_not_trans
    /\ Cardinality(WarningIdx) = 1
    /\ Len(nodes) = 3

(* ------------------------- the expansion pass ------------------------- *)
\* the last character of a text, none for an empty text
LastCharOf(text) == IF text = <<>> THEN "" ELSE text[Len(text)]

\* line 127, first test: the line is blank
IsBlank(line) == Strip(line) = <<>>

\* the numbers of the lines before line i that are not blank
NonBlankBefore(lines, i) == {j \in 1..(i - 1) : ~IsBlank(lines[j])}

Max(S) == CHOOSE x \in S : \A y \in S : y <= x

\* the last character of the nearest non-blank line before line i
CarriedInto(lines, i) ==
    IF NonBlankBefore(lines, i) = {} THEN ""
    ELSE LastCharOf(lines[Max(NonBlankBefore(lines, i))])

\* call k continues the line of call k - 1 with the last character of the
\* part that call returned
WithinLine(k) ==
    /\ k > 1
    /\ expand_calls[k - 1].line = expand_calls[k].line
    /\ expand_calls[k - 1].position = expand_calls[k].position - 1
    /\ expand_calls[k].last_char = LastCharOf(expand_calls[k - 1].part)

\* C17 as stated: the call for the first part of a line is given the last
\* character of the previous line of the composed text, where that line has
\* one; a later part the last character of the part emitted before it.
C17_Original ==
    LET lines == ExpandLoopLines
    IN  \A k \in DOMAIN expand_calls :
            LET c == expand_calls[k]
            IN  /\ c.position > 0 => WithinLine(k)
                /\ (c.position = 0 /\ c.line > 1 /\ lines[c.line - 1] # <<>>) =>
                       c.last_char = LastCharOf(lines[c.line - 1])

\* C17 amended: the call for the first part of a line is given the last
\* character of the nearest earlier non-blank line of the composed text, the
\* empty string when there is none; a later part the last character of the
\* part emitted before it; last_char is the last character of the part
\* emitted last, so no line boundary and no blank line resets it.
C17_LastCharCarried ==
    LET lines == ExpandLoopLines
    IN  /\ \A k \in DOMAIN expand_calls :
               LET c == expand_calls[k]
               IN  /\ c.position > 0 => WithinLine(k)
                   /\ c.position = 0 => c.last_char = CarriedInto(lines, c.line)
                   /\ c.position = 0 /\ k > 1 =>
                          c.last_char = LastCharOf(expand_calls[k - 1].part)
        /\ last_char = (IF expand_calls = <<>> THEN ""
                        ELSE LastCharOf(expand_calls[Len(expand_calls)].part))

\* C17 witness: the pass is over; the first part of a line that follows a
\* blank line was expanded with the last character of the line before the
\* blank one, and a later part of a line with that of the part before it.
C17_Witness ==
    /\ pc = "done"
    /\ error = NoError
    /\ \E k \in DOMAIN expand_calls :
           /\ expand_calls[k].position = 0
           /\ expand_calls[k].line > 2
           /\ LET lines == ExpandLoopLines
              IN  /\ IsBlank(lines[expand_calls[k].line - 1])
                  /\ ~IsBlank(lines[expand_calls[k].line - 2])
           /\ expand_calls[k].last_char # ""
    /\ \E k \in DOMAIN expand_calls :
           expand_calls[k].position > 0 /\ expand_calls[k].last_char # ""

\* the lines the pass has appended to final_markdown
EmittedLines == splitlines(final_markdown)

\* the line is blank or the target language is compact
Unexpanded(line) == IsBlank(line) \/ target_lang \in compact_langs

\* the calls of expand_part made for line j
CallsFor(j) == {k \in DOMAIN expand_calls : expand_calls[k].line = j}

\* every line passed is emitted once, at its place; a blank line, and every
\* line of a compact language, is emitted as it is and without a call of
\* expand_part; last_char is changed by those calls alone
C18_PassThrough ==
    /\ LET lines == ExpandLoopLines
           emitted == EmittedLines
       IN  /\ Len(emitted) = line_i
           /\ \A j \in 1..line_i :
                  Unexpanded(lines[j]) =>
                      /\ emitted[j] = lines[j]
                      /\ CallsFor(j) = {}
    /\ last_char = (IF expand_calls = <<>> THEN ""
                    ELSE LastCharOf(expand_calls[Len(expand_calls)].part))
    /\ target_lang \in compact_langs => expand_calls = <<>> /\ last_char = ""

\* the file was written by a task of a compact language
CompactWritten == target_lang \in compact_langs /\ pc = "done" /\ error = NoError

\* C18 as stated: lines that are blank or of a compact language pass through
\* unchanged, uncalled and without a change of last_char, and the file
\* written for a compact language has the lines of the composed text.
C18_Original ==
    /\ C18_PassThrough
    /\ CompactWritten => splitlines(target_file) = ExpandLoopLines

\* a sequence of lines without the empty lines at its end
RECURSIVE DropTrailingEmpty(_)
DropTrailingEmpty(lines) ==
    IF lines # <<>> /\ lines[Len(lines)] = <<>>
    THEN DropTrailingEmpty(SubSeq(lines, 1, Len(lines) - 1)) ELSE lines

\* C18 amended: the same, and the file written for a compact language has
\* the lines of the composed text without the empty lines at its end.
C18_CompactUnchanged ==
    /\ C18_PassThrough
    /\ CompactWritten => splitlines(target_file) = DropTrailingEmpty(ExpandLoopLines)

\* two neighbouring characters of the line are of different scripts
MixedScripts(line) == \E i \in 1..(Len(line) - 1) : Differs(line[i], line[i + 1])

\* C18 witness: the file of a compact language was written; the composed
\* text has a line of mixed scripts before a blank line and a further line,
\* and no call of expand_part was made.
C18_Witness ==
    /\ CompactWritten
    /\ expand_calls = <<>>
    /\ \E j \in DOMAIN ExpandLoopLines :
           /\ j + 2 <= Len(ExpandLoopLines)
           /\ MixedScripts(ExpandLoopLines[j])
           /\ IsBlank(ExpandLoopLines[j + 1])
           /\ ~IsBlank(ExpandLoopLines[j + 2])
    /\ splitlines(target_file) # ExpandLoopLines

(* --------------------------- the output file -------------------------- *)
\* line 193 of the next run: the output file of the task exists
TargetExists == target_file # NoFile

\* the steps before the write of line 136
EarlierSteps == {"read", "classify", "backend", "IndexError", "expand"}

\* every step before the write has run to its end
PipelineComplete ==
    /\ src_lines # <<>>
    /\ Len(backend_calls) = 1
    /\ node_i = Len(nodes)
    /\ line_i = Len(ExpandLoopLines)
    /\ Len(EmittedLines) = Len(ExpandLoopLines)

\* C19: until line 136 runs there is no output file; when there is one, the
\* read, the preprocessing, the classification, the backend call, the
\* splice and the expansion pass have all run to their end and, unless the
\* write itself failed, the file holds their result; a task that failed in
\* an earlier step leaves no output file, so line 193 of the next run does
\* not find one and the language is not skipped.
C19_WriteIsLast ==
    /\ pc \notin {"done", "except"} => ~TargetExists
    /\ error \in EarlierSteps => ~TargetExists
    /\ TargetExists => PipelineComplete /\ error \in {NoError, "write"}
    /\ (TargetExists /\ error = NoError) => target_file = RStripNL(final_markdown)

\* C19 witness: the backend answered and a later step, the splice, failed:
\* the task has ended and there is no output file.
C19_Witness ==
    /\ pc = "done"
    /\ error = "IndexError"
    /\ Len(backend_calls) = 1
    /\ ~TargetExists

====
